---- MODULE Spec2Model ----
(***************************************************************************)
(* A model of src/server.js (first variant, lines 1-167): an Express       *)
(* gateway that rate-limits /api/ paths, parses JSON bodies, answers       *)
(* GET /health, proxies POST /api/chat/completions to the upstream         *)
(* chat-completion API, and maps failures to HTTP responses.               *)
(*                                                                         *)
(* One request occupies one slot.  The steps of a request are the places   *)
(* where Node's event loop can interleave it with other requests: after    *)
(* the limiter has counted it, after its body has been read, and while     *)
(* the upstream call is awaited.                                           *)
(***************************************************************************)
EXTENDS Integers, Sequences, FiniteSets

(***************************************************************************)
(* Bounds of the model.                                                    *)
(***************************************************************************)
\* longest `messages` array a caller sends
MaxLen == 2
\* how many requests beyond the limiter's cap a client sends in one window
MaxOver == 1

(***************************************************************************)
(* Program constants.                                                      *)
(***************************************************************************)
\* rateLimit({ max: 120 })
max == 120
\* max_completion_tokens || 40
DefaultMaxCompletionTokens == 40

\* request slots: the detailed specification handles one request at a time,
\* the concurrent one two requests in flight
ReqIds == {1}
ReqIdsConc == {1, 2}
AllReqIds == ReqIds \cup ReqIdsConc
\* client keys of the limiter (req.ip)
Clients == {"ip1"}

(***************************************************************************)
(* JavaScript values.  Every value has the same shape so that values of    *)
(* different JavaScript types can be compared: t is the type tag, s the    *)
(* string, n the number, a the elements of an array.                       *)
(***************************************************************************)
Undefined == [t |-> "undefined", s |-> "", n |-> 0, a |-> <<>>]
Null == [t |-> "null", s |-> "", n |-> 0, a |-> <<>>]
Str(x) == [t |-> "string", s |-> x, n |-> 0, a |-> <<>>]
Num(k) == [t |-> "number", s |-> "", n |-> k, a |-> <<>>]
Obj == [t |-> "object", s |-> "", n |-> 0, a |-> <<>>]
Arr(elems) == [t |-> "array", s |-> "", n |-> 0, a |-> elems]

\* an element of a `messages` array: an object with (possibly absent) role
\* and content, or a value that is not an object
Msg(role, content) == [t |-> "object", role |-> role, content |-> content]
NullElem == [t |-> "null", role |-> Undefined, content |-> Undefined]
StrElem == [t |-> "string", role |-> Undefined, content |-> Undefined]

(***************************************************************************)
(* JavaScript operators the handler uses.                                  *)
(***************************************************************************)
\* ToBoolean: what `!v`, `v || w` and `if (v)` test
Truthy(v) ==
    CASE v.t \in {"undefined", "null"} -> FALSE
      [] v.t = "string" -> v.s # ""
      [] v.t = "number" -> v.n # 0
      [] OTHER -> TRUE

\* v || w
Or(v, w) == IF Truthy(v) THEN v ELSE w

\* Array.isArray(v)
IsArray(v) == v.t = "array"

\* o[k] of a plain object (a function from its own keys): undefined when absent
Get(o, k) == IF k \in DOMAIN o THEN o[k] ELSE Undefined

\* const { k1, k2, ...rest } = o : the rest object
Rest(o, taken) == [k \in (DOMAIN o) \ taken |-> o[k]]

\* { ...base, ...other } : later keys override earlier ones
Spread(base, other) ==
    [k \in (DOMAIN base) \cup (DOMAIN other) |->
        IF k \in DOMAIN other THEN other[k] ELSE base[k]]

\* message.role / message.content : reading a property of null throws
PropThrows(message) == message.t \in {"null", "undefined"}
Role(message) == IF message.t = "object" THEN message.role ELSE Undefined
Content(message) == IF message.t = "object" THEN message.content ELSE Undefined

(***************************************************************************)
(* Responses.  kind says what the body is: "error" is the JSON envelope    *)
(* {error: {message, type, code?}}, "text" a plain string, "health" the    *)
(* liveness payload, "completion" the upstream object.                     *)
(***************************************************************************)
NoResp ==
    [status |-> 0, kind |-> "none", message |-> Undefined, type |-> Undefined,
     code |-> Undefined, payload |-> "", service |-> ""]

\* res.status(status).json({ error: { message, type, code } })
JsonError(status, message, type, code) ==
    [status |-> status, kind |-> "error", message |-> message, type |-> type,
     code |-> code, payload |-> "", service |-> ""]

\* res.json(completion)
SuccessResponse(completion) ==
    [status |-> 200, kind |-> "completion", message |-> Undefined,
     type |-> Undefined, code |-> Undefined, payload |-> completion,
     service |-> ""]

\* res.json({ status: 'OK', timestamp, service: 'Crystal Companions Backend' })
HealthResponse ==
    [status |-> 200, kind |-> "health", message |-> Undefined,
     type |-> Undefined, code |-> Undefined, payload |-> "OK",
     service |-> "Crystal Companions Backend"]

\* the limiter's rejection: res.status(429).send(message), message a string
LimiterResponse ==
    [status |-> 429, kind |-> "text", message |-> Undefined,
     type |-> Undefined, code |-> Undefined,
     payload |-> "Too many requests from this IP, please try again later.",
     service |-> ""]

\* cors() on an OPTIONS request: 204 with no body
PreflightResponse ==
    [status |-> 204, kind |-> "empty", message |-> Undefined,
     type |-> Undefined, code |-> Undefined, payload |-> "", service |-> ""]

MessagesRequired ==
    JsonError(400, Str("Messages array is required"),
              Str("invalid_request_error"), Undefined)

MessageFormat ==
    JsonError(400, Str("Each message must have role and content"),
              Str("invalid_request_error"), Undefined)

InternalServerError ==
    JsonError(500, Str("Internal server error"), Str("server_error"), Undefined)

EndpointNotFound ==
    JsonError(404, Str("Endpoint not found"), Str("not_found"), Undefined)

(***************************************************************************)
(* The chat handler's pure parts.                                          *)
(***************************************************************************)
\* the validation loop over messages[i..]: "ok", "invalid" (an element
\* without role or content) or "throw" (message.role of null)
RECURSIVE ValidateFrom(_, _)
ValidateFrom(messages, i) ==
    IF i > Len(messages) THEN "ok"
    ELSE IF PropThrows(messages[i]) THEN "throw"
    ELSE IF ~Truthy(Role(messages[i])) \/ ~Truthy(Content(messages[i]))
         THEN "invalid"
    ELSE ValidateFrom(messages, i + 1)

DestructuredKeys == {"model", "messages", "max_completion_tokens"}

\* the rest object of a destructuring that leaves model out:
\* const { messages, max_completion_tokens, ...otherParams } = req.body
otherParams_KeepsModel(body) ==
    Rest(body, {"messages", "max_completion_tokens"})

\* const { model, messages, max_completion_tokens, ...otherParams } = req.body
otherParams(body) == Rest(body, DestructuredKeys)

\* the object literal of lines 75-80
openaiRequest(body) ==
    Spread([model |-> Or(Get(body, "model"), Str("gpt-4o-mini")),
            messages |-> Get(body, "messages"),
            max_completion_tokens |->
                Or(Get(body, "max_completion_tokens"),
                   Num(DefaultMaxCompletionTokens))],
           otherParams(body))

\* Validation without the Array.isArray test
Validation_NoArrayCheck(body) ==
    LET messages == Get(body, "messages") IN
    IF ~Truthy(messages) THEN "required"
    ELSE LET v == ValidateFrom(messages.a, 1) IN
         IF v = "ok" THEN "call" ELSE v

\* what the try block does before the upstream call:
\* "required" / "invalid" (a 400 is returned), "throw" or "call"
Validation(body) ==
    LET messages == Get(body, "messages") IN
    IF ~Truthy(messages) \/ ~IsArray(messages) THEN "required"
    ELSE LET v == ValidateFrom(messages.a, 1) IN
         IF v = "ok" THEN "call" ELSE v

\* an error object: the fields the catch block inspects
Error(code, status, message, type) ==
    [code |-> code, status |-> status, message |-> message, type |-> type]

\* the TypeError of reading a property of null
TypeError ==
    Error(Undefined, Undefined,
          Str("Cannot read properties of null (reading 'role')"), Undefined)

\* MapError testing the status before the two codes
MapError_StatusFirst(error) ==
    IF Truthy(error.status)
    THEN JsonError(error.status.n,
                   Or(error.message, Str("OpenAI API error")),
                   Or(error.type, Str("api_error")),
                   Or(error.code, Str("api_error")))
    ELSE IF error.code = Str("insufficient_quota")
    THEN JsonError(429, Str("API quota exceeded"), Str("insufficient_quota"),
                   Str("insufficient_quota"))
    ELSE IF error.code = Str("rate_limit_exceeded")
    THEN JsonError(429, Str("Rate limit exceeded, please try again later"),
                   Str("rate_limit_exceeded"), Str("rate_limit_exceeded"))
    ELSE InternalServerError

\* MapError answering every upstream error with the generic message
MapError_GenericMessage(error) ==
    IF error.code = Str("insufficient_quota")
    THEN JsonError(429, Str("API quota exceeded"), Str("insufficient_quota"),
                   Str("insufficient_quota"))
    ELSE IF error.code = Str("rate_limit_exceeded")
    THEN JsonError(429, Str("Rate limit exceeded, please try again later"),
                   Str("rate_limit_exceeded"), Str("rate_limit_exceeded"))
    ELSE IF Truthy(error.status)
    THEN JsonError(error.status.n,
                   Str("OpenAI API error"),
                   Or(error.type, Str("api_error")),
                   Or(error.code, Str("api_error")))
    ELSE InternalServerError

\* the catch block, lines 92-134
MapError(error) ==
    IF error.code = Str("insufficient_quota")
    THEN JsonError(429, Str("API quota exceeded"), Str("insufficient_quota"),
                   Str("insufficient_quota"))
    ELSE IF error.code = Str("rate_limit_exceeded")
    THEN JsonError(429, Str("Rate limit exceeded, please try again later"),
                   Str("rate_limit_exceeded"), Str("rate_limit_exceeded"))
    ELSE IF Truthy(error.status)
    THEN JsonError(error.status.n,
                   Or(error.message, Str("OpenAI API error")),
                   Or(error.type, Str("api_error")),
                   Or(error.code, Str("api_error")))
    ELSE InternalServerError

(***************************************************************************)
(* Routing.  A path is the sequence of its segments.                       *)
(***************************************************************************)
HealthPath == <<"health">>
ChatPath == <<"api", "chat", "completions">>

\* the limiter mounted on every path: app.use(limiter)
LimiterApplies_AllPaths(path) == TRUE

\* app.use('/api/', limiter): the limiter runs on paths under /api/
LimiterApplies(path) == Len(path) >= 1 /\ path[1] = "api"

\* the limiter letting one request more through
LimitExceeded_OffByOne(totalHits) == totalHits > max + 1

\* express-rate-limit rejects a request whose count exceeds max
LimitExceeded(totalHits) == totalHits > max

\* the chat route registered for every method: app.all
Route_AnyMethod(r) ==
    IF r.malformed THEN "error_middleware"
    ELSE IF r.method = "GET" /\ r.path = HealthPath THEN "health"
    ELSE IF r.path = ChatPath THEN "chat"
    ELSE "not_found"

\* the route the request ends in once its body has been read
Route(r) ==
    IF r.malformed THEN "error_middleware"
    ELSE IF r.method = "GET" /\ r.path = HealthPath THEN "health"
    ELSE IF r.method = "POST" /\ r.path = ChatPath THEN "chat"
    ELSE "not_found"

(***************************************************************************)
(* Inputs.                                                                 *)
(***************************************************************************)
ValidMsg == Msg(Str("user"), Str("hi"))
ValidReply == Msg(Str("assistant"), Str("hello"))

\* the elements a caller puts in `messages`: two valid messages, one
\* without role, one with an empty content, null, and a bare string
Elems ==
    {ValidMsg, ValidReply, Msg(Undefined, Str("hi")),
     Msg(Str("user"), Str("")), NullElem, StrElem}

SeqsUpTo(S, n) == UNION {[1..k -> S] : k \in 0..n}

\* the values of `messages`: absent, not an array, or an array
MessagesValues ==
    {Undefined, Null, Str("hello"), Str(""), Num(7), Obj}
        \cup {Arr(elems) : elems \in SeqsUpTo(Elems, MaxLen)}

ModelValues == {Undefined, Null, Str(""), Str("gpt-4o")}
MaxTokensValues == {Undefined, Num(0), Num(256)}
TemperatureValues == {Undefined, Num(0)}

\* a JSON body: the keys whose value the caller supplied (JSON has no
\* undefined, so Undefined stands for an absent key)
MkBody(model, messages, maxTokens, temperature) ==
    LET all == [model |-> model, messages |-> messages,
                max_completion_tokens |-> maxTokens,
                temperature |-> temperature]
        keys == {k \in DOMAIN all : all[k] # Undefined}
    IN  [k \in keys |-> all[k]]

EmptyBody == MkBody(Undefined, Undefined, Undefined, Undefined)

\* bodies sent to the chat endpoint: every value of `messages` on its own,
\* and a valid conversation with every combination of the other fields
Bodies ==
    {MkBody(Undefined, m, Undefined, Undefined) : m \in MessagesValues}
        \cup {MkBody(mo, Arr(<<ValidMsg>>), mt, te) :
                mo \in ModelValues, mt \in MaxTokensValues,
                te \in TemperatureValues}

Paths == {HealthPath, ChatPath, <<"api", "unknown">>, <<"nope">>}

Request(method, path, client, malformed, body) ==
    [method |-> method, path |-> path, client |-> client,
     malformed |-> malformed, body |-> body]

NoReq == Request("", <<>>, "", FALSE, EmptyBody)

\* the requests of the detailed specification
Requests ==
    {Request("POST", ChatPath, c, FALSE, b) : c \in Clients, b \in Bodies}
        \cup {Request(m, p, c, mal, EmptyBody) :
                m \in {"GET", "POST", "OPTIONS"}, p \in Paths, c \in Clients,
                mal \in BOOLEAN}

\* the requests of the concurrent specification
RequestsConc ==
    {Request("POST", ChatPath, c, FALSE, b) :
        c \in Clients,
        b \in {EmptyBody,
               MkBody(Undefined, Arr(<<ValidMsg>>), Undefined, Undefined)}}
        \cup {Request("GET", p, c, FALSE, EmptyBody) :
                p \in {HealthPath, <<"api", "unknown">>}, c \in Clients}
        \cup {Request("GET", HealthPath, c, TRUE, EmptyBody) : c \in Clients}

\* what the upstream call comes back with
Outcome(ok, completion, error) ==
    [ok |-> ok, completion |-> completion, error |-> error]

NoError == Error(Undefined, Undefined, Undefined, Undefined)
NoOutcome == Outcome(FALSE, "", NoError)

ErrorCodes ==
    {Undefined, Str("insufficient_quota"), Str("rate_limit_exceeded"),
     Str("model_not_found")}
ErrorStatuses == {Undefined, Num(401), Num(503)}
ErrorMessages == {Undefined, Str("upstream message")}
ErrorTypes == {Undefined, Str("invalid_request_error")}

Outcomes ==
    {Outcome(TRUE, c, NoError) : c \in {"chatcmpl-1", "chatcmpl-2"}}
        \cup {Outcome(FALSE, "", Error(c, st, m, ty)) :
                c \in ErrorCodes, st \in ErrorStatuses, m \in ErrorMessages,
                ty \in ErrorTypes}

OutcomesConc ==
    {Outcome(TRUE, "chatcmpl-1", NoError),
     Outcome(FALSE, "", Error(Str("insufficient_quota"), Num(429),
                              Str("upstream message"), Undefined)),
     Outcome(FALSE, "", NoError)}

(***************************************************************************)
(* State.                                                                  *)
(***************************************************************************)
VARIABLES
    hits,       \* the limiter's store: requests counted per client key
    passed,     \* per key, the requests of this window the limiter let through
    pc,         \* per slot: "idle", "limiter", "parsing", "awaiting", "done"
    req,        \* per slot: the request
    rl,         \* per slot, while in the limiter: its verdict and its window
    beyond,     \* per slot: it was counted beyond the cap of its window
    via,        \* per slot: what answered or handles the request
    sent,       \* per slot: the upstream requests issued for it
    outcome,    \* per slot: what the upstream call came back with
    resp        \* per slot: the response

vars == <<hits, passed, pc, req, rl, beyond, via, sent, outcome, resp>>

NoRl == [exceeded |-> FALSE, win |-> "none"]

Init ==
    /\ hits = [c \in Clients |-> 0]
    /\ passed = [c \in Clients |-> 0]
    /\ pc = [r \in AllReqIds |-> "idle"]
    /\ req = [r \in AllReqIds |-> NoReq]
    /\ rl = [r \in AllReqIds |-> NoRl]
    /\ beyond = [r \in AllReqIds |-> FALSE]
    /\ via = [r \in AllReqIds |-> "none"]
    /\ sent = [r \in AllReqIds |-> <<>>]
    /\ outcome = [r \in AllReqIds |-> NoOutcome]
    /\ resp = [r \in AllReqIds |-> NoResp]

\* the response is written and the request is over
Respond(r, handler, response) ==
    /\ pc' = [pc EXCEPT ![r] = "done"]
    /\ via' = [via EXCEPT ![r] = handler]
    /\ resp' = [resp EXCEPT ![r] = response]

\* A request arrives.  cors() answers an OPTIONS request itself (the
\* preflight).  On a path under /api/ the limiter counts the request at
\* once: the store's increment yields the request's own count, which fixes
\* the verdict the limiter then acts on.  Any other path goes on to the
\* body parser.
Receive(r, inputs) ==
    /\ pc[r] = "idle"
    /\ \E q \in inputs :
        /\ req' = [req EXCEPT ![r] = q]
        /\ IF q.method = "OPTIONS"
           THEN /\ Respond(r, "cors", PreflightResponse)
                /\ UNCHANGED <<hits, rl, beyond>>
           ELSE IF LimiterApplies(q.path)
           THEN /\ hits[q.client] < max + MaxOver
                /\ hits' = [hits EXCEPT ![q.client] = @ + 1]
                /\ rl' = [rl EXCEPT ![r] =
                            [exceeded |-> LimitExceeded(hits[q.client] + 1),
                             win |-> "cur"]]
                /\ beyond' = [beyond EXCEPT ![r] = hits[q.client] >= max]
                /\ pc' = [pc EXCEPT ![r] = "limiter"]
                /\ UNCHANGED <<via, resp>>
           ELSE /\ pc' = [pc EXCEPT ![r] = "parsing"]
                /\ UNCHANGED <<hits, rl, beyond, via, resp>>
    /\ UNCHANGED <<passed, sent, outcome>>

\* The limiter acts on the verdict: 429 with its message, or next().
LimiterDecide(r) ==
    /\ pc[r] = "limiter"
    /\ rl' = [rl EXCEPT ![r] = NoRl]
    /\ IF rl[r].exceeded
       THEN /\ Respond(r, "limiter", LimiterResponse)
            /\ UNCHANGED passed
       ELSE /\ pc' = [pc EXCEPT ![r] = "parsing"]
            /\ passed' = [passed EXCEPT ![req[r].client] =
                            IF rl[r].win = "cur" THEN @ + 1 ELSE @]
            /\ UNCHANGED <<via, resp>>
    /\ UNCHANGED <<hits, req, beyond, sent, outcome>>

\* The limiter's timer: every windowMs the store forgets all counts.
WindowReset ==
    /\ \E c \in Clients : hits[c] > 0
    /\ hits' = [c \in Clients |-> 0]
    /\ passed' = [c \in Clients |-> 0]
    /\ rl' = [r \in AllReqIds |->
                IF rl[r].win = "cur" THEN [rl[r] EXCEPT !.win = "old"]
                ELSE rl[r]]
    /\ UNCHANGED <<pc, req, beyond, via, sent, outcome, resp>>

\* express.json() fails on the body: the error middleware answers.
ErrorMiddleware(r) ==
    /\ pc[r] = "parsing"
    /\ Route(req[r]) = "error_middleware"
    /\ Respond(r, "error_middleware", InternalServerError)
    /\ UNCHANGED <<hits, passed, req, rl, beyond, sent, outcome>>

\* app.get('/health')
Health(r) ==
    /\ pc[r] = "parsing"
    /\ Route(req[r]) = "health"
    /\ Respond(r, "health", HealthResponse)
    /\ UNCHANGED <<hits, passed, req, rl, beyond, sent, outcome>>

\* app.use('*'): no route matched
NotFound(r) ==
    /\ pc[r] = "parsing"
    /\ Route(req[r]) = "not_found"
    /\ Respond(r, "not_found", EndpointNotFound)
    /\ UNCHANGED <<hits, passed, req, rl, beyond, sent, outcome>>

\* app.post('/api/chat/completions') up to the await of the upstream call
Chat(r) ==
    /\ pc[r] = "parsing"
    /\ Route(req[r]) = "chat"
    /\ LET v == Validation(req[r].body) IN
       IF v = "call"
       THEN /\ sent' = [sent EXCEPT ![r] = Append(@, openaiRequest(req[r].body))]
            /\ pc' = [pc EXCEPT ![r] = "awaiting"]
            /\ via' = [via EXCEPT ![r] = "chat"]
            /\ UNCHANGED resp
       ELSE /\ Respond(r, "chat",
                       CASE v = "required" -> MessagesRequired
                         [] v = "invalid" -> MessageFormat
                         [] OTHER -> MapError(TypeError))
            /\ UNCHANGED sent
    /\ UNCHANGED <<hits, passed, req, rl, beyond, outcome>>

\* UpstreamReturns with one retry of a failed call
UpstreamReturns_Retry(r, outcomes) ==
    /\ pc[r] = "awaiting"
    /\ \E o \in outcomes :
        IF ~o.ok /\ Len(sent[r]) < 2
        THEN /\ sent' = [sent EXCEPT ![r] = Append(@, @[1])]
             /\ UNCHANGED <<pc, via, resp, outcome>>
        ELSE /\ outcome' = [outcome EXCEPT ![r] = o]
             /\ Respond(r, "chat",
                        IF o.ok THEN SuccessResponse(o.completion)
                        ELSE MapError(o.error))
             /\ UNCHANGED sent
    /\ UNCHANGED <<hits, passed, req, rl, beyond>>

\* the upstream call settles: res.json(completion), or the catch block
UpstreamReturns(r, outcomes) ==
    /\ pc[r] = "awaiting"
    /\ \E o \in outcomes :
        /\ outcome' = [outcome EXCEPT ![r] = o]
        /\ Respond(r, "chat",
                   IF o.ok THEN SuccessResponse(o.completion)
                   ELSE MapError(o.error))
    /\ UNCHANGED <<hits, passed, req, rl, beyond, sent>>

\* the response has gone out; the slot takes the next request
Complete(r) ==
    /\ pc[r] = "done"
    /\ pc' = [pc EXCEPT ![r] = "idle"]
    /\ req' = [req EXCEPT ![r] = NoReq]
    /\ via' = [via EXCEPT ![r] = "none"]
    /\ sent' = [sent EXCEPT ![r] = <<>>]
    /\ outcome' = [outcome EXCEPT ![r] = NoOutcome]
    /\ resp' = [resp EXCEPT ![r] = NoResp]
    /\ beyond' = [beyond EXCEPT ![r] = FALSE]
    /\ UNCHANGED <<hits, passed, rl>>

\* one request at a time, every input
Next ==
    \/ \E r \in ReqIds : Receive(r, Requests)
    \/ \E r \in ReqIds : LimiterDecide(r)
    \/ WindowReset
    \/ \E r \in ReqIds : ErrorMiddleware(r)
    \/ \E r \in ReqIds : Health(r)
    \/ \E r \in ReqIds : NotFound(r)
    \/ \E r \in ReqIds : Chat(r)
    \/ \E r \in ReqIds : UpstreamReturns(r, Outcomes)
    \/ \E r \in ReqIds : Complete(r)

Spec == Init /\ [][Next]_vars

\* requests in flight together, fewer inputs
NextConc ==
    \/ \E r \in ReqIdsConc : Receive(r, RequestsConc)
    \/ \E r \in ReqIdsConc : LimiterDecide(r)
    \/ WindowReset
    \/ \E r \in ReqIdsConc : ErrorMiddleware(r)
    \/ \E r \in ReqIdsConc : Health(r)
    \/ \E r \in ReqIdsConc : NotFound(r)
    \/ \E r \in ReqIdsConc : Chat(r)
    \/ \E r \in ReqIdsConc : UpstreamReturns(r, OutcomesConc)
    \/ \E r \in ReqIdsConc : Complete(r)

SpecConc == Init /\ [][NextConc]_vars

(***************************************************************************)
(* What the claims speak of.  These describe requests and responses in     *)
(* the words of the specification, not through the handler's operators.    *)
(***************************************************************************)
Done(r) == pc[r] = "done"

\* r is a POST /api/chat/completions whose JSON body was parsed
ChatPost(r) ==
    /\ req[r].method = "POST"
    /\ req[r].path = ChatPath
    /\ ~req[r].malformed

\* the limiter let r through and its body has been read: r was answered,
\* or is being handled, by a route or a later middleware
PastLimiter(r) == pc[r] \in {"awaiting", "done"} /\ via[r] # "limiter"

\* a non-empty string
NonEmpty(v) == v.t = "string" /\ v.s # ""

MessagesOf(r) == Get(req[r].body, "messages")

\* element e of `messages` has a non-empty role and a non-empty content
WellFormedMessage(e) ==
    e.t = "object" /\ NonEmpty(e.role) /\ NonEmpty(e.content)

\* `messages` is a sequence all of whose elements are well formed
ValidMessages(r) ==
    /\ MessagesOf(r).t = "array"
    /\ \A i \in 1..Len(MessagesOf(r).a) : WellFormedMessage(MessagesOf(r).a[i])

\* upstream calls issued for r
Calls(r) == Len(sent[r])

\* r is answered 400 invalid_request_error and no upstream call was made
Rejected400(r) ==
    /\ resp[r].status = 400
    /\ resp[r].kind = "error"
    /\ resp[r].type = Str("invalid_request_error")
    /\ Calls(r) = 0

(***************************************************************************)
(* C1: a chat request that the limiter admits and whose `messages` is a    *)
(* sequence of messages with non-empty role and content causes exactly     *)
(* one upstream call, whether the call succeeds or fails, and a            *)
(* successful call is answered 200 with the upstream result unmodified.    *)
(***************************************************************************)
C1_ExactlyOneUpstreamCall ==
    \A r \in AllReqIds :
        /\ Calls(r) <= 1
        /\ (ChatPost(r) /\ PastLimiter(r) /\ ValidMessages(r)) =>
              /\ Calls(r) = 1
              /\ (Done(r) /\ outcome[r].ok) =>
                    /\ resp[r].status = 200
                    /\ resp[r].kind = "completion"
                    /\ resp[r].payload = outcome[r].completion

\* a two-message conversation answered 200 with the second upstream result
C1_Witness ==
    \E r \in AllReqIds :
        /\ Done(r) /\ ChatPost(r) /\ ValidMessages(r)
        /\ MessagesOf(r).a = <<ValidMsg, ValidReply>>
        /\ outcome[r].ok /\ outcome[r].completion = "chatcmpl-2"
        /\ resp[r].status = 200 /\ resp[r].payload = "chatcmpl-2"
        /\ Calls(r) = 1

(***************************************************************************)
(* C2: a chat request whose body has no `messages`, or a `messages` that   *)
(* is not a sequence (null, a string, a number, an object), is answered    *)
(* 400 invalid_request_error and causes no upstream call.                  *)
(***************************************************************************)
MessagesNotASequence(r) == ChatPost(r) /\ MessagesOf(r).t # "array"

\* the claim as stated: every such request, whatever the limiter's count
C2_MissingMessagesRejected ==
    \A r \in AllReqIds :
        (Done(r) /\ MessagesNotASequence(r)) => Rejected400(r)

\* C2 as amended: every such request that the limiter admits
C2_MissingMessagesRejectedAdmitted ==
    \A r \in AllReqIds :
        (MessagesNotASequence(r) /\ PastLimiter(r)) =>
            Done(r) /\ Rejected400(r)

\* a request whose `messages` is a plain object was answered 400
C2_Witness ==
    \E r \in AllReqIds :
        /\ Done(r) /\ ChatPost(r) /\ MessagesOf(r) = Obj
        /\ Rejected400(r)
        /\ resp[r].message = Str("Messages array is required")

(***************************************************************************)
(* C3: a chat request whose `messages` sequence holds, at any position,    *)
(* an element lacking role or content (absent, empty, or the element not   *)
(* an object, such as null) is answered 400 invalid_request_error and      *)
(* causes no upstream call.  Stated for the requests that the limiter      *)
(* admits, which is where the handler decides.                             *)
(***************************************************************************)
C3_MalformedMessageRejected ==
    \A r \in AllReqIds :
        (/\ ChatPost(r) /\ PastLimiter(r)
         /\ MessagesOf(r).t = "array"
         /\ ~ValidMessages(r)) =>
            Done(r) /\ Rejected400(r)

(***************************************************************************)
(* C4: within one window at most max (120) requests of a client key pass   *)
(* the limiter, however requests interleave; a request counted beyond the  *)
(* cap is answered by the limiter, before any handler sees it, whatever    *)
(* its payload, and causes no upstream call.                               *)
(***************************************************************************)
C4_LimiterCap ==
    /\ \A c \in Clients : passed[c] <= 120
    /\ \A r \in AllReqIds :
        (beyond[r] /\ pc[r] # "limiter") =>
            /\ Done(r)
            /\ via[r] = "limiter"
            /\ resp[r].status = 429
            /\ Calls(r) = 0

\* the cap is used up, a valid chat request counted beyond it was rejected
\* while the other request, counted within the cap, awaits the upstream
C4_Witness ==
    \E r, o \in AllReqIds :
        /\ r # o
        /\ Done(r) /\ beyond[r] /\ ChatPost(r) /\ ValidMessages(r)
        /\ passed[req[r].client] = 120
        /\ resp[r].status = 429 /\ Calls(r) = 0
        /\ pc[o] = "awaiting" /\ ~beyond[o]

(***************************************************************************)
(* C5: a failed upstream call is answered by the first rule that matches:  *)
(* quota exhaustion -> 429 insufficient_quota; rate limit -> 429           *)
(* rate_limit_exceeded; an error with a status code -> that status;        *)
(* anything else -> 500 server_error with the generic message.             *)
(***************************************************************************)
UpstreamFailed(r) == Done(r) /\ Calls(r) = 1 /\ ~outcome[r].ok

C5_FailurePrecedence ==
    \A r \in AllReqIds :
        UpstreamFailed(r) =>
            LET e == outcome[r].error IN
            IF e.code = Str("insufficient_quota")
            THEN resp[r].status = 429 /\ resp[r].type = Str("insufficient_quota")
            ELSE IF e.code = Str("rate_limit_exceeded")
            THEN resp[r].status = 429 /\ resp[r].type = Str("rate_limit_exceeded")
            ELSE IF e.status.t = "number"
            THEN resp[r].status = e.status.n
            ELSE /\ resp[r].status = 500
                 /\ resp[r].type = Str("server_error")
                 /\ resp[r].message = Str("Internal server error")

\* a quota error that also carries status 503 was answered 429
C5_Witness ==
    \E r \in AllReqIds :
        /\ UpstreamFailed(r)
        /\ outcome[r].error.code = Str("insufficient_quota")
        /\ outcome[r].error.status = Num(503)
        /\ resp[r].status = 429
        /\ resp[r].type = Str("insufficient_quota")

(***************************************************************************)
(* C6: an upstream failure that carries a status code S and a message M    *)
(* is answered with status S and message M; the error's type and code are  *)
(* passed through when supplied and are api_error otherwise.               *)
(***************************************************************************)
PassedThrough(r) ==
    LET e == outcome[r].error IN
    /\ resp[r].status = e.status.n
    /\ resp[r].kind = "error"
    /\ resp[r].message =
          (IF NonEmpty(e.message) THEN e.message ELSE Str("OpenAI API error"))
    /\ resp[r].type = (IF NonEmpty(e.type) THEN e.type ELSE Str("api_error"))
    /\ resp[r].code = (IF NonEmpty(e.code) THEN e.code ELSE Str("api_error"))

\* the claim as stated: for every code the error carries
C6_StatusPassThrough ==
    \A r \in AllReqIds :
        (UpstreamFailed(r) /\ outcome[r].error.status.t = "number") =>
            PassedThrough(r)

\* C6 as amended: for an error whose code is neither insufficient_quota
\* nor rate_limit_exceeded
C6_StatusPassThroughOther ==
    \A r \in AllReqIds :
        (/\ UpstreamFailed(r)
         /\ outcome[r].error.status.t = "number"
         /\ outcome[r].error.code \notin
                {Str("insufficient_quota"), Str("rate_limit_exceeded")}) =>
            PassedThrough(r)

\* status 503 and a message with neither type nor code: 503, the message,
\* api_error twice
C6_Witness ==
    \E r \in AllReqIds :
        /\ UpstreamFailed(r)
        /\ outcome[r].error =
              Error(Undefined, Num(503), Str("upstream message"), Undefined)
        /\ resp[r].status = 503
        /\ resp[r].message = Str("upstream message")
        /\ resp[r].type = Str("api_error")
        /\ resp[r].code = Str("api_error")

(***************************************************************************)
(* C7: every response with a status of 400 or above is the JSON envelope   *)
(* {error: {message, type, code?}} with a message and a type, on every     *)
(* failure path: validation, the limiter's rejection, an upstream error,   *)
(* an unclassified exception, a malformed body, an unmatched route.        *)
(***************************************************************************)
C7_ErrorEnvelope ==
    \A r \in AllReqIds :
        (Done(r) /\ resp[r].status >= 400) =>
            /\ resp[r].kind = "error"
            /\ NonEmpty(resp[r].message)
            /\ NonEmpty(resp[r].type)

(***************************************************************************)
(* C8: a request whose method and path match no registered route is        *)
(* answered 404 not_found and causes no upstream call.                     *)
(***************************************************************************)
\* the routes the application registers
Registered(q) ==
    \/ q.method = "GET" /\ q.path = HealthPath
    \/ q.method = "POST" /\ q.path = ChatPath

Answered404(r) ==
    /\ resp[r].status = 404
    /\ resp[r].kind = "error"
    /\ resp[r].type = Str("not_found")
    /\ Calls(r) = 0

\* the claim as stated: every unmatched request whose body, if any, parses
C8_UnmatchedIs404 ==
    \A r \in AllReqIds :
        (Done(r) /\ ~Registered(req[r]) /\ ~req[r].malformed) => Answered404(r)

\* C8 as amended: an unmatched request that is no OPTIONS preflight and
\* that the limiter did not reject
C8_UnmatchedAdmittedIs404 ==
    \A r \in AllReqIds :
        (/\ Done(r) /\ ~Registered(req[r]) /\ ~req[r].malformed
         /\ req[r].method # "OPTIONS"
         /\ via[r] # "limiter") => Answered404(r)

\* a GET on the chat path, admitted by the limiter, was answered 404
C8_Witness ==
    \E r \in AllReqIds :
        /\ Done(r)
        /\ req[r].method = "GET" /\ req[r].path = ChatPath
        /\ ~req[r].malformed
        /\ Answered404(r)

(***************************************************************************)
(* C9: GET /health is answered 200 with status "OK" and the service name,  *)
(* and causes no upstream call, whatever the other requests in flight,     *)
(* the upstream's failures and the limiter's counters are.                 *)
(***************************************************************************)
HealthGet(r) ==
    /\ req[r].method = "GET"
    /\ req[r].path = HealthPath
    /\ ~req[r].malformed

Supplied(r, k) == k \in DOMAIN req[r].body

\* the value is one that `||` keeps: a non-empty string, a non-zero number
Kept(v) == (v.t = "string" /\ v.s # "") \/ (v.t = "number" /\ v.n # 0)

\* messages and the additional fields are forwarded as they came
Forwarded(r) ==
    LET b == req[r].body
        u == sent[r][1]
    IN  /\ DOMAIN u = DestructuredKeys \cup DOMAIN b
        /\ u["messages"] = b["messages"]
        /\ \A k \in (DOMAIN b) \ DestructuredKeys : u[k] = b[k]

\* the claim as stated: every supplied value wins over the default
C10_UpstreamRequestMerged ==
    \A r \in AllReqIds :
        Calls(r) = 1 =>
            /\ Forwarded(r)
            /\ sent[r][1]["model"] =
                  (IF Supplied(r, "model") THEN req[r].body["model"]
                   ELSE Str("gpt-4o-mini"))
            /\ sent[r][1]["max_completion_tokens"] =
                  (IF Supplied(r, "max_completion_tokens")
                   THEN req[r].body["max_completion_tokens"]
                   ELSE Num(40))

\* C10 as amended: a supplied value wins unless it is 0 or the empty string
C10_UpstreamRequestMergedKept ==
    \A r \in AllReqIds :
        Calls(r) = 1 =>
            /\ Forwarded(r)
            /\ sent[r][1]["model"] =
                  (IF Supplied(r, "model") /\ Kept(req[r].body["model"])
                   THEN req[r].body["model"]
                   ELSE Str("gpt-4o-mini"))
            /\ sent[r][1]["max_completion_tokens"] =
                  (IF /\ Supplied(r, "max_completion_tokens")
                      /\ Kept(req[r].body["max_completion_tokens"])
                   THEN req[r].body["max_completion_tokens"]
                   ELSE Num(40))

\* a caller's model and temperature 0 forwarded, max_completion_tokens 0
\* replaced by the default
C10_Witness ==
    \E r \in AllReqIds :
        /\ Calls(r) = 1
        /\ req[r].body =
              MkBody(Str("gpt-4o"), Arr(<<ValidMsg>>), Num(0), Num(0))
        /\ sent[r][1]["model"] = Str("gpt-4o")
        /\ sent[r][1]["max_completion_tokens"] = Num(40)
        /\ sent[r][1]["temperature"] = Num(0)

====
